---- MODULE Spec2Model ----
(***************************************************************************)
(* Model of the genai-cloud-gateway request path: app/router.py            *)
(* (choose_models, run_generation and its inner call()), the two provider  *)
(* adapters as far as run_generation observes them, app/cost_tracker.py    *)
(* (est_tokens, estimate_cost, UsageLogger.log) and the /generate handler  *)
(* of app/main.py.  Several requests run concurrently (FastAPI runs the    *)
(* synchronous handler in a thread pool); they share only the read-only    *)
(* configuration and the usage_logs table.                                 *)
(*                                                                         *)
(* Text is abstracted to what the code reads of it: whether it is a str,   *)
(* its length, and whether it is blank (empty after strip()).  Money is    *)
(* counted in units of 1e-8 USD, the precision estimate_cost rounds to.    *)
(***************************************************************************)
EXTENDS Integers, Sequences, FiniteSets, TLC

VARIABLES
    app_cfg,        \* AppConfig (main.py APP_CFG): enable_request_logging
    usage_logs,     \* the usage_logs table, rows in insertion order
    next_uuid,      \* source of uuid.uuid4(): values never repeat
    pc,             \* per run: position in run_generation
    req,            \* per run: the GenerateRequest
    request_id,     \* per run: request_id (router.py:74)
    stage,          \* per run: "primary" (try at 146) or "secondary" (try at 175)
    calls,          \* per run, per provider: number of provider.generate calls
    sends,          \* per run, per provider: requests put on the wire
    presult,        \* per run: `result` of call(), the ProviderResult
    e1,             \* per run: exception bound at router.py:150
    e2,             \* per run: exception bound at router.py:179
    attempts,       \* per run: `attempts` (router.py:78)
    fallback_used,  \* per run: `fallback_used` (router.py:79)
    result,         \* per run: the dict returned at router.py:201
    error,          \* per run: the exception that left run_generation
    http,           \* per run: status of the /generate response (main.py)
    hist,           \* per run, per stage: what happened (history, not program state)
    est_last,       \* the last estimate_cost call made on its own: arguments, value
    est_prev        \* the estimate_cost call made before that one

vars == <<app_cfg, usage_logs, next_uuid, pc, req, request_id, stage, calls,
          sends, presult, e1, e2, attempts, fallback_used, result, error,
          http, hist, est_last, est_prev>>

(***************************************************************************)
(* Bounds of the model.                                                    *)
(***************************************************************************)
\* requests handled in specification Spec
NumRuns == 1

\* longest of the short texts given to estimate_cost in specification SpecCost
MaxTextLen == 9

Runs == 1..NumRuns
\* the two requests handled concurrently in specification SpecConc
ConcRuns == {1, 2}
AllRuns == Runs \cup ConcRuns

(***************************************************************************)
(* Program constants.                                                      *)
(***************************************************************************)
\* BotoConfig(retries={"max_attempts": 2, "mode": "standard"}): in a client
\* Config, max_attempts counts the retries after the first request
BotoMaxAttempts == 2
\* str(e)[:500]
MaxErrorLen == 500
\* default prices per 1k tokens, in 1e-8 USD
AzureCostPer1kInput == 15000
AzureCostPer1kOutput == 60000
BedrockCostPer1kInput == 25000
BedrockCostPer1kOutput == 125000

Providers == {"azure", "bedrock"}
Stages == {"primary", "secondary"}

Min(a, b) == IF a <= b THEN a ELSE b
Max(a, b) == IF a >= b THEN a ELSE b

(***************************************************************************)
(* Values.                                                                 *)
(***************************************************************************)
\* a Python str, abstracted to its length and whether strip() empties it
Str(n, b) == [kind |-> "str", len |-> n, blank |-> b]
\* Python None where a str is expected
NoneValue == [kind |-> "none", len |-> 0, blank |-> TRUE]

\* an exception: its class/origin, and the length of str(e)
Exc(k, n) == [kind |-> k, len |-> n, parts |-> <<>>]
NoExc == [kind |-> "none", len |-> 0, parts |-> <<>>]

NoReq == [prompt |-> NoneValue, task |-> "none", priority |-> "none",
          provider_hint |-> "none"]
NoPResult == [provider |-> "none", model |-> "none", text |-> NoneValue,
              latency_ms |-> 0]
NoResult == [request_id |-> 0, chosen_provider |-> "none", chosen_model |-> "none",
             text |-> NoneValue, latency_ms |-> 0, fallback_used |-> FALSE,
             attempts |-> <<>>]
NoHist == [gen |-> "none", call |-> "none",
           ok_logged |-> FALSE, fail_logged |-> FALSE, sink_raised |-> FALSE]

(***************************************************************************)
(* Inputs.                                                                 *)
(***************************************************************************)
\* GenerateRequest values the runs are started with (models.py:11-21)
Requests ==
    { [prompt |-> Str(4000, FALSE), task |-> "chat", priority |-> "low_cost",
       provider_hint |-> "none"],
      [prompt |-> Str(4000, FALSE), task |-> "chat", priority |-> "high_quality",
       provider_hint |-> "azure"] }

\* data["choices"][0]["message"]["content"] of an Azure response that has one
AzureContents == { Str(40, FALSE), Str(0, TRUE), NoneValue }
\* the text extracted from a Bedrock response body
BedrockTexts == { Str(40, FALSE), Str(0, TRUE), Str(3, TRUE) }
\* measured latency_ms of a provider call
Latencies == { 25 }
\* exceptions a provider call ends with, other than Bedrock's retried ones
AzureFailures == { Exc("azure_http", 700) }
BedrockFailures == { Exc("bedrock_client", 120) }

(***************************************************************************)
(* app/config.py: the deployment / model identifiers and the prices.       *)
(***************************************************************************)
AzureDeployment(priority) ==
    CASE priority = "low_cost" -> "az-low-cost"
      [] priority = "high_quality" -> "az-high-quality"
      [] OTHER -> "az-low-latency"

BedrockModel(priority) ==
    CASE priority = "low_cost" -> "br-low-cost"
      [] priority = "high_quality" -> "br-high-quality"
      [] OTHER -> "br-low-latency"

CostPer1kInput(provider) ==
    IF provider = "azure" THEN AzureCostPer1kInput ELSE BedrockCostPer1kInput

CostPer1kOutput(provider) ==
    IF provider = "azure" THEN AzureCostPer1kOutput ELSE BedrockCostPer1kOutput

(***************************************************************************)
(* app/cost_tracker.py: est_tokens, estimate_cost.                         *)
(***************************************************************************)
\* mutant of est_tokens: the floor alone, without the minimum of one token
est_tokens_floor(text) ==
    IF text.kind # "str" \/ text.len = 0 THEN 0 ELSE text.len \div 4

\* mutant of est_tokens: a text shorter than four characters counts two tokens
est_tokens_short_two(text) ==
    IF text.kind # "str" \/ text.len = 0 THEN 0
    ELSE IF text.len < 4 THEN 2 ELSE text.len \div 4

\* `if not text: return 0` covers None and "" alike
est_tokens(text) ==
    IF text.kind # "str" \/ text.len = 0 THEN 0 ELSE Max(1, text.len \div 4)

\* round(n / d) to an integer, ties to even, as Python's round()
RoundHalfEven(n, d) ==
    LET q == n \div d
        rem == n % d
    IN  IF 2 * rem < d THEN q
        ELSE IF 2 * rem > d THEN q + 1
        ELSE IF q % 2 = 0 THEN q ELSE q + 1

estimate_cost(provider, prompt, output_text) ==
    LET in_tok == est_tokens(prompt)
        out_tok == est_tokens(output_text)
    IN  [input_tokens_est |-> in_tok,
         output_tokens_est |-> out_tok,
         total_tokens_est |-> in_tok + out_tok,
         cost_est_usd |-> RoundHalfEven(in_tok * CostPer1kInput(provider)
                                        + out_tok * CostPer1kOutput(provider), 1000)]

\* the CostEstimate built in the two except blocks of run_generation
FailureEstimate(prompt) ==
    [input_tokens_est |-> est_tokens(prompt),
     output_tokens_est |-> 0,
     total_tokens_est |-> est_tokens(prompt),
     cost_est_usd |-> 0]

\* no estimate_cost call made yet
NoCall == [provider |-> "none", prompt |-> NoneValue, output_text |-> NoneValue,
           estimate |-> FailureEstimate(NoneValue)]

(***************************************************************************)
(* app/router.py: choose_models.                                           *)
(***************************************************************************)
Swap(pair) == <<pair[2], pair[1]>>

\* mutant of choose_models: a hint replaces the primary by the hinted
\* provider's selection and leaves the secondary as the table has it
choose_models_hint_overwrites(rq) ==
    LET table ==
            IF rq.priority = "low_cost"
            THEN << <<"bedrock", BedrockModel("low_cost")>>,
                    <<"azure", AzureDeployment("low_cost")>> >>
            ELSE IF rq.priority = "high_quality"
            THEN << <<"bedrock", BedrockModel("high_quality")>>,
                    <<"azure", AzureDeployment("high_quality")>> >>
            ELSE << <<"azure", AzureDeployment("low_latency")>>,
                    <<"bedrock", BedrockModel("low_latency")>> >>
    IN  IF rq.provider_hint = "azure" /\ table[1][1] # "azure"
        THEN << table[2], table[2] >>
        ELSE IF rq.provider_hint = "bedrock" /\ table[1][1] # "bedrock"
        THEN << table[2], table[2] >>
        ELSE table

\* mutant of choose_models: a hint swaps the provider names and leaves each
\* model identifier in its slot
choose_models_swaps_names(rq) ==
    LET table ==
            IF rq.priority = "low_cost"
            THEN << <<"bedrock", BedrockModel("low_cost")>>,
                    <<"azure", AzureDeployment("low_cost")>> >>
            ELSE IF rq.priority = "high_quality"
            THEN << <<"bedrock", BedrockModel("high_quality")>>,
                    <<"azure", AzureDeployment("high_quality")>> >>
            ELSE << <<"azure", AzureDeployment("low_latency")>>,
                    <<"bedrock", BedrockModel("low_latency")>> >>
        renamed == << <<table[2][1], table[1][2]>>, <<table[1][1], table[2][2]>> >>
    IN  IF rq.provider_hint = "azure" /\ table[1][1] # "azure" THEN renamed
        ELSE IF rq.provider_hint = "bedrock" /\ table[1][1] # "bedrock" THEN renamed
        ELSE table

choose_models(rq) ==
    LET table ==
            IF rq.priority = "low_cost"
            THEN << <<"bedrock", BedrockModel("low_cost")>>,
                    <<"azure", AzureDeployment("low_cost")>> >>
            ELSE IF rq.priority = "high_quality"
            THEN << <<"bedrock", BedrockModel("high_quality")>>,
                    <<"azure", AzureDeployment("high_quality")>> >>
            ELSE << <<"azure", AzureDeployment("low_latency")>>,
                    <<"bedrock", BedrockModel("low_latency")>> >>
    IN  IF rq.provider_hint = "azure" /\ table[1][1] # "azure" THEN Swap(table)
        ELSE IF rq.provider_hint = "bedrock" /\ table[1][1] # "bedrock" THEN Swap(table)
        ELSE table

\* `primary`, `secondary` of a run (router.py:76) and the selection being tried
Primary(r) == choose_models(req[r])[1]
Secondary(r) == choose_models(req[r])[2]
Current(r) == IF stage[r] = "primary" THEN Primary(r) ELSE Secondary(r)

(***************************************************************************)
(* app/cost_tracker.py: UsageLogger.log.  One INSERT and one commit: the   *)
(* row is appended atomically, with the next AUTOINCREMENT id.  The field  *)
(* `by` is history (the run whose call wrote the row), not a column.       *)
(***************************************************************************)
\* mutant of ErrorText: the whole message is kept
ErrorTextWhole(e, n) == [text_of |-> e.kind, len |-> e.len]

\* str(e)[:n]
ErrorText(e, n) == [text_of |-> e.kind, len |-> Min(e.len, n)]
NoErrorText == [text_of |-> "none", len |-> 0]

\* mutant of UsageRow: the row takes the id minted last, by whichever run
UsageRowLatestId(r, sel, est, latency, ok, err) ==
    [id |-> Len(usage_logs) + 1,
     request_id |-> next_uuid - 1,
     provider |-> sel[1],
     model |-> sel[2],
     task |-> req[r].task,
     priority |-> req[r].priority,
     input_tokens_est |-> est.input_tokens_est,
     output_tokens_est |-> est.output_tokens_est,
     total_tokens_est |-> est.total_tokens_est,
     cost_est_usd |-> est.cost_est_usd,
     latency_ms |-> latency,
     success |-> IF ok THEN 1 ELSE 0,
     error |-> err,
     by |-> r]

UsageRow(r, sel, est, latency, ok, err) ==
    [id |-> Len(usage_logs) + 1,
     request_id |-> request_id[r],
     provider |-> sel[1],
     model |-> sel[2],
     task |-> req[r].task,
     priority |-> req[r].priority,
     input_tokens_est |-> est.input_tokens_est,
     output_tokens_est |-> est.output_tokens_est,
     total_tokens_est |-> est.total_tokens_est,
     cost_est_usd |-> est.cost_est_usd,
     latency_ms |-> latency,
     success |-> IF ok THEN 1 ELSE 0,
     error |-> err,
     by |-> r]

\* the usage_logger.log(...) call of call(), router.py:119-129
SuccessRow(r) ==
    UsageRow(r, Current(r),
             estimate_cost(Current(r)[1], req[r].prompt, presult[r].text),
             presult[r].latency_ms, TRUE, NoErrorText)

\* mutant of FailureRow: the failure record is written with success=True
FailureRowMarkedSuccess(r, e) ==
    UsageRow(r, Current(r), FailureEstimate(req[r].prompt), 0, TRUE,
             ErrorText(e, MaxErrorLen))

\* the usage_logger.log(...) calls of the except blocks, router.py:161-171, 188-198
FailureRow(r, e) ==
    UsageRow(r, Current(r), FailureEstimate(req[r].prompt), 0, FALSE,
             ErrorText(e, MaxErrorLen))

(***************************************************************************)
(* app/router.py: run_generation.                                          *)
(***************************************************************************)
\* RuntimeError(f"Both providers failed. Primary: {e1}; Secondary: {e2}")
BothFailed(x1, x2) ==
    [kind |-> "both_failed", len |-> 45 + x1.len + x2.len, parts |-> <<x1, x2>>]

\* ProviderResponse(...) built at router.py:131-143
ProviderResponse(r, pr) ==
    [provider |-> Current(r)[1],
     model |-> Current(r)[2],
     text |-> pr.text,
     latency_ms |-> pr.latency_ms,
     usage |-> estimate_cost(Current(r)[1], req[r].prompt, pr.text)]

\* mutant of ResultDict: the chosen response is listed once more
ResultDictDupAttempt(r, chosen, atts) ==
    [request_id |-> request_id[r],
     chosen_provider |-> chosen.provider,
     chosen_model |-> chosen.model,
     text |-> chosen.text,
     latency_ms |-> chosen.latency_ms,
     fallback_used |-> fallback_used[r],
     attempts |-> Append(atts, chosen)]

\* the dict returned at router.py:201-209, `chosen` being the response just built
ResultDict(r, chosen, atts) ==
    [request_id |-> request_id[r],
     chosen_provider |-> chosen.provider,
     chosen_model |-> chosen.model,
     text |-> chosen.text,
     latency_ms |-> chosen.latency_ms,
     fallback_used |-> fallback_used[r],
     attempts |-> atts]

\* router.py:82-108: call() hands the request to the selection's provider
\* (one generate call, whose first request goes on the wire)
InvokeProvider(r, sel) ==
    /\ calls' = [calls EXCEPT ![r][sel[1]] = @ + 1]
    /\ sends' = [sends EXCEPT ![r][sel[1]] = @ + 1]

\* mutant of HandlerTail: after the primary failed, the primary is called again
HandlerTailRetriesPrimary(r, x1, x2) ==
    IF stage[r] = "primary"
    THEN /\ fallback_used' = [fallback_used EXCEPT ![r] = TRUE]
         /\ stage' = [stage EXCEPT ![r] = "secondary"]
         /\ InvokeProvider(r, Primary(r))
         /\ pc' = [pc EXCEPT ![r] = "inflight"]
         /\ UNCHANGED <<error, http>>
    ELSE /\ error' = [error EXCEPT ![r] = BothFailed(x1, x2)]
         /\ http' = [http EXCEPT ![r] = 500]
         /\ pc' = [pc EXCEPT ![r] = "raised"]
         /\ UNCHANGED <<stage, fallback_used, calls, sends>>

\* what follows the (optional) failure record in an except block:
\* router.py:173-176 after the primary (fallback_used, then call(secondary)),
\* router.py:199 after the secondary (the composite error; main.py:56-57)
HandlerTail(r, x1, x2) ==
    IF stage[r] = "primary"
    THEN /\ fallback_used' = [fallback_used EXCEPT ![r] = TRUE]
         /\ stage' = [stage EXCEPT ![r] = "secondary"]
         /\ InvokeProvider(r, Secondary(r))
         /\ pc' = [pc EXCEPT ![r] = "inflight"]
         /\ UNCHANGED <<error, http>>
    ELSE /\ error' = [error EXCEPT ![r] = BothFailed(x1, x2)]
         /\ http' = [http EXCEPT ![r] = 500]
         /\ pc' = [pc EXCEPT ![r] = "raised"]
         /\ UNCHANGED <<stage, fallback_used, calls, sends>>

\* an exception e leaves call(): it is caught at router.py:150 (primary) or
\* router.py:179 (secondary), whatever raised it; h is the stage's history so far
RaiseInCall(r, e, h) ==
    /\ hist' = [hist EXCEPT ![r][stage[r]] = [h EXCEPT !.call = "raised"]]
    /\ presult' = [presult EXCEPT ![r] = NoPResult]
    /\ e1' = IF stage[r] = "primary" THEN [e1 EXCEPT ![r] = e] ELSE e1
    /\ e2' = IF stage[r] = "secondary" THEN [e2 EXCEPT ![r] = e] ELSE e2
    /\ UNCHANGED <<attempts, result>>
    /\ IF app_cfg.enable_request_logging
       THEN /\ pc' = [pc EXCEPT ![r] = "log_failure"]
            /\ UNCHANGED <<stage, fallback_used, error, http, calls, sends>>
       ELSE HandlerTail(r, IF stage[r] = "primary" THEN e ELSE e1[r], e)

\* router.py:131-143, then 148-149 / 177-178 and 201-209, then main.py:55:
\* call() builds the ProviderResponse, which validates text: str; built, it is
\* appended to attempts, chosen and returned; a text that is no str raises.
\* pr is the ProviderResult, h the stage's history so far
BuildResponse(r, pr, h) ==
    IF pr.text.kind = "str"
    THEN /\ attempts' = [attempts EXCEPT ![r] = Append(@, ProviderResponse(r, pr))]
         /\ result' = [result EXCEPT ![r] =
                         ResultDict(r, ProviderResponse(r, pr), attempts'[r])]
         /\ http' = [http EXCEPT ![r] = 200]
         /\ pc' = [pc EXCEPT ![r] = "returned"]
         /\ hist' = [hist EXCEPT ![r][stage[r]] = [h EXCEPT !.call = "ok"]]
         /\ presult' = [presult EXCEPT ![r] = NoPResult]
         /\ UNCHANGED <<stage, e1, e2, fallback_used, error, calls, sends>>
    ELSE RaiseInCall(r, Exc("validation", 150), h)

Init ==
    /\ app_cfg \in [enable_request_logging : BOOLEAN]
    /\ usage_logs = <<>>
    /\ next_uuid = 1
    /\ pc = [r \in AllRuns |-> "idle"]
    /\ req = [r \in AllRuns |-> NoReq]
    /\ request_id = [r \in AllRuns |-> 0]
    /\ stage = [r \in AllRuns |-> "primary"]
    /\ calls = [r \in AllRuns |-> [p \in Providers |-> 0]]
    /\ sends = [r \in AllRuns |-> [p \in Providers |-> 0]]
    /\ presult = [r \in AllRuns |-> NoPResult]
    /\ e1 = [r \in AllRuns |-> NoExc]
    /\ e2 = [r \in AllRuns |-> NoExc]
    /\ attempts = [r \in AllRuns |-> <<>>]
    /\ fallback_used = [r \in AllRuns |-> FALSE]
    /\ result = [r \in AllRuns |-> NoResult]
    /\ error = [r \in AllRuns |-> NoExc]
    /\ http = [r \in AllRuns |-> 0]
    /\ hist = [r \in AllRuns |-> [s \in Stages |-> NoHist]]
    /\ est_last = NoCall
    /\ est_prev = NoCall

\* main.py:44-46 and router.py:74-79, 147: a request arrives, the id is
\* minted, the selections are chosen and call(primary) is entered
Start(r) ==
    /\ pc[r] = "idle"
    /\ \E rq \in Requests : req' = [req EXCEPT ![r] = rq]
    /\ request_id' = [request_id EXCEPT ![r] = next_uuid]
    /\ next_uuid' = next_uuid + 1
    /\ InvokeProvider(r, choose_models(req'[r])[1])
    /\ pc' = [pc EXCEPT ![r] = "inflight"]
    /\ UNCHANGED <<est_last, est_prev, app_cfg, usage_logs, stage, presult, e1, e2,
                   attempts, fallback_used, result, error, http, hist>>

\* the provider answers with a body the adapter can read.  Azure returns
\* whatever `content` holds (azure_openai.py:62-75); Bedrock raises on a
\* text that is not a str or is blank (aws_bedrock.py:85-86).  With
\* enable_request_logging off, call() goes straight on to its return
GenerateReturns(r) ==
    /\ pc[r] = "inflight"
    /\ \E lat \in Latencies :
       \E text \in (IF Current(r)[1] = "azure" THEN AzureContents ELSE BedrockTexts) :
          IF Current(r)[1] = "bedrock" /\ (text.kind # "str" \/ text.blank)
          THEN RaiseInCall(r, Exc("bedrock_empty", 90),
                           [hist[r][stage[r]] EXCEPT !.gen = "raised"])
          ELSE LET h == [hist[r][stage[r]] EXCEPT
                           !.gen = IF text.kind = "str" THEN "text" ELSE "nontext"]
                   pr == [provider |-> Current(r)[1], model |-> Current(r)[2],
                          text |-> text, latency_ms |-> lat]
               IN  IF app_cfg.enable_request_logging
                   THEN /\ presult' = [presult EXCEPT ![r] = pr]
                        /\ hist' = [hist EXCEPT ![r][stage[r]] = h]
                        /\ pc' = [pc EXCEPT ![r] = "log_success"]
                        /\ UNCHANGED <<stage, calls, sends, e1, e2, attempts,
                                       fallback_used, result, error, http>>
                   ELSE BuildResponse(r, pr, h)
    /\ UNCHANGED <<est_last, est_prev, app_cfg, usage_logs, next_uuid, req, request_id>>

\* the provider call ends with an exception that is not retried: an HTTP
\* status >= 400 or a timeout (azure_openai.py:55-60), a client error of
\* invoke_model (aws_bedrock.py:64-67)
GenerateRaises(r) ==
    /\ pc[r] = "inflight"
    /\ \E e \in (IF Current(r)[1] = "azure" THEN AzureFailures ELSE BedrockFailures) :
          RaiseInCall(r, e, [hist[r][stage[r]] EXCEPT !.gen = "raised"])
    /\ UNCHANGED <<est_last, est_prev, app_cfg, usage_logs, next_uuid, req, request_id>>

\* a transient error of invoke_model while attempts remain: botocore sends
\* the request again (aws_bedrock.py:18-22)
BedrockRetry(r) ==
    /\ pc[r] = "inflight"
    /\ Current(r)[1] = "bedrock"
    /\ sends[r]["bedrock"] < 1 + BotoMaxAttempts
    /\ sends' = [sends EXCEPT ![r]["bedrock"] = @ + 1]
    /\ UNCHANGED <<est_last, est_prev, app_cfg, usage_logs, next_uuid, pc, req, request_id, stage, calls,
                   presult, e1, e2, attempts, fallback_used, result, error, http, hist>>

\* mutant of BedrockRetriesExhausted: with no attempt left, the count of
\* attempts starts over and the call goes on waiting
BedrockRetriesStartOver(r) ==
    /\ pc[r] = "inflight"
    /\ Current(r)[1] = "bedrock"
    /\ sends[r]["bedrock"] >= 1 + BotoMaxAttempts
    /\ sends' = [sends EXCEPT ![r]["bedrock"] = 1]
    /\ UNCHANGED <<est_last, est_prev, app_cfg, usage_logs, next_uuid, pc, req,
                   request_id, stage, calls, presult, e1, e2, attempts,
                   fallback_used, result, error, http, hist>>

\* a transient error of invoke_model with no attempt left: it is raised
BedrockRetriesExhausted(r) ==
    /\ pc[r] = "inflight"
    /\ Current(r)[1] = "bedrock"
    /\ sends[r]["bedrock"] >= 1 + BotoMaxAttempts
    /\ RaiseInCall(r, Exc("bedrock_transient", 80),
                   [hist[r][stage[r]] EXCEPT !.gen = "raised"])
    /\ UNCHANGED <<est_last, est_prev, app_cfg, usage_logs, next_uuid, req, request_id>>

\* mutant of LogSuccess: the record takes the place of the last row of the
\* table when there is one
LogSuccessOverwrites(r) ==
    /\ pc[r] = "log_success"
    /\ usage_logs' = IF usage_logs = <<>>
                     THEN Append(usage_logs, SuccessRow(r))
                     ELSE [usage_logs EXCEPT ![Len(usage_logs)] = SuccessRow(r)]
    /\ BuildResponse(r, presult[r], [hist[r][stage[r]] EXCEPT !.ok_logged = TRUE])
    /\ UNCHANGED <<est_last, est_prev, app_cfg, next_uuid, req, request_id>>

\* router.py:118-129: the success record is committed; call() goes on to
\* its return
LogSuccess(r) ==
    /\ pc[r] = "log_success"
    /\ usage_logs' = Append(usage_logs, SuccessRow(r))
    /\ BuildResponse(r, presult[r], [hist[r][stage[r]] EXCEPT !.ok_logged = TRUE])
    /\ UNCHANGED <<est_last, est_prev, app_cfg, next_uuid, req, request_id>>

\* router.py:118-129: usage_logger.log raises (sqlite3 error); nothing is
\* written and the exception leaves call()
LogSuccessRaises(r) ==
    /\ pc[r] = "log_success"
    /\ RaiseInCall(r, Exc("sink", 40),
                   [hist[r][stage[r]] EXCEPT !.sink_raised = TRUE])
    /\ UNCHANGED <<est_last, est_prev, app_cfg, usage_logs, next_uuid, req, request_id>>

\* mutant of LogFailure: the except block goes on and the failure record
\* is left for later
LogFailureDeferred(r) ==
    /\ pc[r] = "log_failure"
    /\ hist' = [hist EXCEPT ![r][stage[r]].fail_logged = TRUE]
    /\ HandlerTail(r, e1[r], e2[r])
    /\ UNCHANGED <<est_last, est_prev, app_cfg, usage_logs, next_uuid, req,
                   request_id, presult, e1, e2, attempts, result>>

\* router.py:152-171 / 180-198: the failure record is committed, then the
\* except block goes on
LogFailure(r) ==
    /\ pc[r] = "log_failure"
    /\ usage_logs' = Append(usage_logs,
                            FailureRow(r, IF stage[r] = "primary" THEN e1[r] ELSE e2[r]))
    /\ hist' = [hist EXCEPT ![r][stage[r]].fail_logged = TRUE]
    /\ HandlerTail(r, e1[r], e2[r])
    /\ UNCHANGED <<est_last, est_prev, app_cfg, next_uuid, req, request_id, presult,
                   e1, e2, attempts, result>>

\* router.py:161 / 188: usage_logger.log raises inside the except block; the
\* sqlite3 error leaves run_generation and main.py:56-57 answers 500
LogFailureRaises(r) ==
    /\ pc[r] = "log_failure"
    /\ hist' = [hist EXCEPT ![r][stage[r]].sink_raised = TRUE]
    /\ error' = [error EXCEPT ![r] = Exc("sink", 40)]
    /\ http' = [http EXCEPT ![r] = 500]
    /\ pc' = [pc EXCEPT ![r] = "raised"]
    /\ UNCHANGED <<est_last, est_prev, app_cfg, usage_logs, next_uuid, req, request_id, stage, calls,
                   sends, presult, e1, e2, attempts, fallback_used, result>>

\* one step of run r
Step(r) ==
    \/ Start(r)
    \/ GenerateReturns(r)
    \/ GenerateRaises(r)
    \/ BedrockRetry(r)
    \/ BedrockRetriesExhausted(r)
    \/ LogSuccess(r)
    \/ LogSuccessRaises(r)
    \/ LogFailure(r)
    \/ LogFailureRaises(r)

Next == \E r \in Runs : Step(r)

Spec == Init /\ [][Next]_vars

\* the same steps, taken by the requests of ConcRuns in any interleaving
NextConc == \E r \in ConcRuns : Step(r)

SpecConc == Init /\ [][NextConc]_vars

(***************************************************************************)
(* One request, over every priority and provider_hint a GenerateRequest    *)
(* can carry, with the two ways a provider call meets the hard timeout:    *)
(* httpx raising it (Azure), invoke_model outliving it (Bedrock).          *)
(***************************************************************************)
Priorities == {"low_cost", "low_latency", "high_quality"}
\* provider_hint: Optional[Literal["azure", "bedrock"]], "none" being None
Hints == {"none", "azure", "bedrock"}
\* lengths of the prompts of AllRequests (prompt has min_length=1)
PromptLens == {7, 4000}

AllRequests ==
    { [prompt |-> Str(n, FALSE), task |-> "chat", priority |-> p,
       provider_hint |-> h] : n \in PromptLens, p \in Priorities, h \in Hints }

\* the run of specification SpecRoute
RouteRuns == {1}

\* AppConfig.hard_timeout_s (default "20"), in ms
HardTimeoutMs == 20000
\* latency_ms measured around an invoke_model that took longer than that
LateLatencies == { 45000 }

\* Start, for any request the endpoint accepts
StartRouted(r) ==
    /\ pc[r] = "idle"
    /\ \E rq \in AllRequests : req' = [req EXCEPT ![r] = rq]
    /\ request_id' = [request_id EXCEPT ![r] = next_uuid]
    /\ next_uuid' = next_uuid + 1
    /\ InvokeProvider(r, choose_models(req'[r])[1])
    /\ pc' = [pc EXCEPT ![r] = "inflight"]
    /\ UNCHANGED <<est_last, est_prev, app_cfg, usage_logs, stage, presult, e1, e2,
                   attempts, fallback_used, result, error, http, hist>>

\* azure_openai.py:55-56: the httpx client was given timeout=timeout_s; the
\* response does not come in time and client.post raises
AzureTimesOut(r) ==
    /\ pc[r] = "inflight"
    /\ Current(r)[1] = "azure"
    /\ RaiseInCall(r, Exc("azure_timeout", 30),
                   [hist[r][stage[r]] EXCEPT !.gen = "raised"])
    /\ UNCHANGED <<est_last, est_prev, app_cfg, usage_logs, next_uuid, req, request_id>>

\* aws_bedrock.py:63-68: generate never uses its timeout_s and the client
\* has no timeout configured from it, so invoke_model can answer after more
\* than hard_timeout_s; the answer is taken as any other
BedrockReturnsLate(r) ==
    /\ pc[r] = "inflight"
    /\ Current(r)[1] = "bedrock"
    /\ \E lat \in LateLatencies :
          LET h == [hist[r][stage[r]] EXCEPT !.gen = "text"]
              pr == [provider |-> Current(r)[1], model |-> Current(r)[2],
                     text |-> Str(40, FALSE), latency_ms |-> lat]
          IN  IF app_cfg.enable_request_logging
              THEN /\ presult' = [presult EXCEPT ![r] = pr]
                   /\ hist' = [hist EXCEPT ![r][stage[r]] = h]
                   /\ pc' = [pc EXCEPT ![r] = "log_success"]
                   /\ UNCHANGED <<stage, calls, sends, e1, e2, attempts,
                                  fallback_used, result, error, http>>
              ELSE BuildResponse(r, pr, h)
    /\ UNCHANGED <<est_last, est_prev, app_cfg, usage_logs, next_uuid, req, request_id>>

\* the steps of a run once its request has arrived
Finish(r) ==
    \/ GenerateReturns(r)
    \/ GenerateRaises(r)
    \/ AzureTimesOut(r)
    \/ BedrockReturnsLate(r)
    \/ BedrockRetry(r)
    \/ BedrockRetriesExhausted(r)
    \/ LogSuccess(r)
    \/ LogSuccessRaises(r)
    \/ LogFailure(r)
    \/ LogFailureRaises(r)

NextRoute == \E r \in RouteRuns : StartRouted(r) \/ Finish(r)

SpecRoute == Init /\ [][NextRoute]_vars

\* every call the run waits on comes back: httpx and botocore give up on a
\* silent peer, sqlite3 on a locked database, and the handler's thread keeps
\* being scheduled; nothing is assumed about requests arriving
SpecRouteFair == SpecRoute /\ \A r \in RouteRuns : WF_vars(Finish(r))

(***************************************************************************)
(* estimate_cost on its own: called with either provider's prices, a       *)
(* prompt and an output text, any number of times.                         *)
(***************************************************************************)
\* output texts: every length up to MaxTextLen, a blank one, a long one
Texts ==
    { Str(n, n = 0) : n \in 0..MaxTextLen } \cup { Str(3, TRUE), Str(4000, FALSE) }
\* prompts: the function itself accepts the empty one
CostPrompts == { Str(0, TRUE), Str(5, FALSE), Str(4000, FALSE) }

EstimateCost(provider, prompt, output_text) ==
    /\ est_prev' = est_last
    /\ est_last' = [provider |-> provider, prompt |-> prompt,
                    output_text |-> output_text,
                    estimate |-> estimate_cost(provider, prompt, output_text)]
    /\ UNCHANGED <<app_cfg, usage_logs, next_uuid, pc, req, request_id, stage,
                   calls, sends, presult, e1, e2, attempts, fallback_used,
                   result, error, http, hist>>

NextCost ==
    \E provider \in Providers, prompt \in CostPrompts, output_text \in Texts :
        EstimateCost(provider, prompt, output_text)

SpecCost == Init /\ [][NextCost]_vars

(***************************************************************************)
(* Vocabulary of the properties.                                           *)
(***************************************************************************)
Returned(r) == pc[r] = "returned"
Raised(r) == pc[r] = "raised"
Terminated(r) == Returned(r) \/ Raised(r)

\* the selection tried in stage s of run r
Sel(r, s) == IF s = "primary" THEN Primary(r) ELSE Secondary(r)
\* stage s of run r called the provider's generate
Invoked(r, s) == hist[r][s].gen # "none" \/ (pc[r] # "idle" /\ (s = "primary" \/ stage[r] = s))
\* the provider's generate call of stage s returned text
ReturnedText(r, s) == hist[r][s].gen = "text"
\* a usage_logger.log call of run r raised
SinkRaised(r) == \E s \in Stages : hist[r][s].sink_raised

\* the rows carrying the request id of run r
RowsOf(r) == { i \in 1..Len(usage_logs) : usage_logs[i].request_id = request_id[r] }
RowsFor(r, p, ok) ==
    { i \in RowsOf(r) : usage_logs[i].provider = p /\ usage_logs[i].success = ok }
Count(S) == Cardinality(S)

(***************************************************************************)
(* C1.  run_generation fails only when both provider invocations failed:   *)
(* a run in which at least one of the two generate calls returned text     *)
(* returns a result and raises nothing.                                    *)
(***************************************************************************)
C1_TextGivesResult ==
    \A r \in AllRuns :
        (Terminated(r) /\ \E s \in Stages : ReturnedText(r, s))
            => (Returned(r) /\ error[r] = NoExc /\ http[r] = 200)

(***************************************************************************)
(* C2.  A failure of the usage-record sink never prevents or changes the   *)
(* generation result: it is not turned into a provider failure (call()     *)
(* raising although generate returned text) nor into a terminal error, and *)
(* the run ends as the provider outcomes alone decide.                     *)
(***************************************************************************)
C2_SinkFailureIsolated ==
    \A r \in AllRuns :
        SinkRaised(r) =>
            /\ error[r].kind # "sink"
            /\ \A s \in Stages : ReturnedText(r, s) => hist[r][s].call # "raised"
            /\ (Terminated(r) /\ ReturnedText(r, "primary")) =>
                    /\ Returned(r)
                    /\ result[r].chosen_provider = Primary(r)[1]
                    /\ result[r].fallback_used = FALSE

(***************************************************************************)
(* C3.  In every returned result fallback_used is true iff the primary     *)
(* attempt failed and the secondary succeeded; when the primary's generate *)
(* call returned text, fallback_used is false and chosen_provider is the   *)
(* primary provider.                                                       *)
(***************************************************************************)
C3_FallbackUsedIff ==
    \A r \in AllRuns :
        Returned(r) =>
            /\ result[r].fallback_used <=>
                   (hist[r]["primary"].call = "raised" /\ hist[r]["secondary"].call = "ok")
            /\ ReturnedText(r, "primary") =>
                   /\ result[r].fallback_used = FALSE
                   /\ result[r].chosen_provider = Primary(r)[1]

CleanLogging(r) ==
    /\ ~SinkRaised(r)
    /\ \A s \in Stages : ~(hist[r][s].ok_logged /\ hist[r][s].call = "raised")

C5_AttemptsOneOrTwo ==
    \A r \in AllRuns :
        Returned(r) =>
            /\ hist[r]["primary"].call = "ok" => Len(result[r].attempts) = 1
            /\ (hist[r]["primary"].call = "raised" /\ Invoked(r, "secondary"))
                   => Len(result[r].attempts) = 2

(***************************************************************************)
(* C5 as amended.  The attempts list of a returned result has length 1     *)
(* both when the primary succeeds and when the primary fails and the       *)
(* secondary succeeds: a failed attempt adds no entry.                     *)
(***************************************************************************)
C5_AttemptsLengthOne ==
    \A r \in AllRuns :
        /\ Returned(r) => (Len(result[r].attempts) = 1 /\ result[r].attempts = attempts[r])
        /\ ~Returned(r) => attempts[r] = <<>>

\* a returned result after a fallback, with its single entry
C5_Witness ==
    \E r \in AllRuns :
        /\ Returned(r) /\ result[r].fallback_used
        /\ hist[r]["primary"].call = "raised"
        /\ Len(result[r].attempts) = 1

(***************************************************************************)
(* C6.  When the primary invocation raises and the secondary succeeds the  *)
(* returned attempts hold exactly one entry, the secondary's; the chosen   *)
(* fields always equal those of the last entry of attempts, which is the   *)
(* only invocation that returned text.                                     *)
(***************************************************************************)
C6_ChosenIsOnlyText ==
    \A r \in AllRuns :
        Returned(r) =>
            LET atts == result[r].attempts
                last == atts[Len(atts)]
            IN  /\ Len(atts) >= 1
                /\ (hist[r]["primary"].call = "raised" /\ hist[r]["secondary"].call = "ok")
                       => (Len(atts) = 1 /\ last.provider = Secondary(r)[1])
                /\ result[r].chosen_provider = last.provider
                /\ result[r].chosen_model = last.model
                /\ result[r].text = last.text
                /\ result[r].latency_ms = last.latency_ms
                /\ \A s \in Stages : ReturnedText(r, s) => Sel(r, s)[1] = last.provider

(***************************************************************************)
(* C7.  When both provider invocations fail, run_generation raises one     *)
(* composite error holding both failure messages, returns no result, and   *)
(* exactly two usage records with success = false exist for the request    *)
(* id, one for each provider (in a configuration that writes usage         *)
(* records).                                                               *)
(***************************************************************************)
C7_BothFailComposite ==
    \A r \in AllRuns :
        (Terminated(r) /\ hist[r]["primary"].gen = "raised"
                       /\ hist[r]["secondary"].gen = "raised")
            => /\ Raised(r)
               /\ error[r].kind = "both_failed"
               /\ error[r].parts = <<e1[r], e2[r]>>
               /\ result[r] = NoResult
               /\ app_cfg.enable_request_logging =>
                      /\ Count(RowsOf(r)) = 2
                      /\ Count(RowsFor(r, Primary(r)[1], 0)) = 1
                      /\ Count(RowsFor(r, Secondary(r)[1], 0)) = 1

C9_SecondaryOnlyAfterFailure ==
    \A r \in AllRuns :
        /\ ~(pc[r] = "inflight" /\ stage[r] = "secondary"
                /\ hist[r]["primary"].gen = "none")
        /\ calls[r][Secondary(r)[1]] > 0 =>
              /\ pc[r] # "idle"
              /\ hist[r]["primary"].gen # "none"
              /\ ~ReturnedText(r, "primary")

(***************************************************************************)
(* C10.  A request identifier is minted once per run; every usage record   *)
(* written during the run and the returned result carry it, and with       *)
(* several runs in progress no usage record carries the identifier of a    *)
(* run other than the one that wrote it.                                   *)
(***************************************************************************)
C10_IdInvariant ==
    /\ \A i \in 1..Len(usage_logs) :
           /\ usage_logs[i].request_id = request_id[usage_logs[i].by]
           /\ \A r \in AllRuns :
                  r # usage_logs[i].by => usage_logs[i].request_id # request_id[r]
    /\ \A r \in AllRuns :
           /\ pc[r] = "idle" <=> request_id[r] = 0
           /\ Returned(r) => result[r].request_id = request_id[r]
           /\ \A q \in AllRuns :
                  (q # r /\ pc[q] # "idle" /\ pc[r] # "idle") => request_id[q] # request_id[r]

\* once minted, the identifier of a run never changes
C10_IdStable ==
    \A r \in AllRuns : request_id[r] # 0 => request_id'[r] = request_id[r]

C10_RequestIdThreaded == [](C10_IdInvariant) /\ [][C10_IdStable]_vars

\* two runs in progress at once, each with a record of its own in the log
C10_Witness ==
    \E r, q \in AllRuns :
        /\ r # q
        /\ ~Terminated(r) /\ ~Terminated(q)
        /\ RowsOf(r) # {} /\ RowsOf(q) # {}
        /\ \E i \in RowsOf(r), j \in RowsOf(q) : i < j
        /\ \E i \in RowsOf(r), j \in RowsOf(q) : j < i

(***************************************************************************)
(* C11.  For every priority and every provider_hint, choose_models returns *)
(* a primary and a secondary selection whose providers differ: one of them *)
(* is azure and the other is bedrock.                                      *)
(***************************************************************************)
C11_ProvidersDiffer ==
    \A r \in AllRuns :
        pc[r] # "idle" =>
            /\ Primary(r)[1] # Secondary(r)[1]
            /\ {Primary(r)[1], Secondary(r)[1]} = Providers

\* a request whose hint made choose_models swap the table's order
HintSwapped(r) ==
    /\ pc[r] # "idle"
    /\ \/ req[r].priority = "low_latency" /\ req[r].provider_hint = "bedrock"
       \/ req[r].priority # "low_latency" /\ req[r].provider_hint = "azure"

\* a swapped request whose two selections have both been tried
C11_Witness ==
    \E r \in AllRuns :
        /\ HintSwapped(r) /\ req[r].priority = "low_latency"
        /\ Terminated(r) /\ stage[r] = "secondary"

(***************************************************************************)
(* C12.  With a provider_hint, the primary selection has the hinted        *)
(* provider and the secondary the other one, for every priority; the       *)
(* hinted provider is the first one run_generation invokes, and when it    *)
(* fails the other provider is invoked as fallback.                        *)
(***************************************************************************)
C12_HintedFirstOtherFallback ==
    \A r \in AllRuns :
        (pc[r] # "idle" /\ req[r].provider_hint # "none") =>
            /\ Primary(r)[1] = req[r].provider_hint
            /\ Secondary(r)[1] \in Providers \ {req[r].provider_hint}
            /\ calls[r][req[r].provider_hint] = 1
            /\ stage[r] = "primary" => calls[r][Secondary(r)[1]] = 0
            /\ (Terminated(r) /\ hist[r]["primary"].gen = "raised")
                   => calls[r][Secondary(r)[1]] = 1

\* the identifier configured for a provider at a priority tier
ModelOf(provider, priority) ==
    IF provider = "azure" THEN AzureDeployment(priority) ELSE BedrockModel(priority)

C14_LowCostPrimaryCheapest ==
    \A r \in AllRuns :
        (pc[r] # "idle" /\ req[r].priority = "low_cost" /\ req[r].provider_hint = "none") =>
            /\ CostPer1kInput(Primary(r)[1]) <= CostPer1kInput(Secondary(r)[1])
            /\ CostPer1kOutput(Primary(r)[1]) <= CostPer1kOutput(Secondary(r)[1])

(***************************************************************************)
(* C15.  Every usage record written for a failed attempt, primary or       *)
(* secondary, has success = false, input_tokens_est equal to the token     *)
(* estimate of the prompt, output_tokens_est = 0, total_tokens_est equal   *)
(* to input_tokens_est, cost_est_usd = 0, latency_ms = 0, and as error the *)
(* first 500 characters of the failure message.                            *)
(***************************************************************************)
C15_FailureRecordShape ==
    /\ \A r \in AllRuns : \A s \in Stages :
           hist[r][s].fail_logged =>
               /\ Count(RowsFor(r, Sel(r, s)[1], 0)) = 1
               /\ \A i \in RowsFor(r, Sel(r, s)[1], 0) :
                      LET e == IF s = "primary" THEN e1[r] ELSE e2[r]
                      IN  /\ usage_logs[i].error.text_of = e.kind
                          /\ usage_logs[i].error.len = Min(e.len, MaxErrorLen)
    /\ \A i \in 1..Len(usage_logs) :
           usage_logs[i].success = 0 =>
               /\ \E s \in Stages :
                      /\ hist[usage_logs[i].by][s].fail_logged
                      /\ usage_logs[i].provider = Sel(usage_logs[i].by, s)[1]
               /\ usage_logs[i].input_tokens_est = est_tokens(req[usage_logs[i].by].prompt)
               /\ usage_logs[i].output_tokens_est = 0
               /\ usage_logs[i].total_tokens_est = usage_logs[i].input_tokens_est
               /\ usage_logs[i].cost_est_usd = 0
               /\ usage_logs[i].latency_ms = 0
               /\ usage_logs[i].error.len <= MaxErrorLen
               /\ usage_logs[i].error.text_of # "none"

\* both attempts failed; the record of the Azure one holds 500 of the 700
\* characters of its message, the record of the Bedrock one the whole message
C15_Witness ==
    \E r \in AllRuns :
        /\ Raised(r) /\ error[r].kind = "both_failed"
        /\ \E i, j \in RowsOf(r) :
              /\ usage_logs[i].provider = "azure" /\ usage_logs[i].success = 0
              /\ usage_logs[i].error.len = MaxErrorLen
              /\ usage_logs[i].input_tokens_est = 1000
              /\ usage_logs[j].provider = "bedrock" /\ usage_logs[j].success = 0
              /\ usage_logs[j].error.len < MaxErrorLen

\* t is the token count the rule gives a text: 0 when it is empty, else
\* the floor of a quarter of its length, and at least 1
TokensByRule(text, t) ==
    IF text.len = 0 THEN t = 0
    ELSE /\ t >= 1
         /\ text.len < 4 => t = 1
         /\ text.len >= 4 => (4 * t <= text.len /\ text.len < 4 * (t + 1))

(***************************************************************************)
(* C16.  est_tokens gives 0 for the empty text and max(1, floor(length/4)) *)
(* for any other (4000 characters give 1000, 1 to 7 characters give 1);    *)
(* estimate_cost returns the input and output counts so computed, their    *)
(* sum as total_tokens_est, and for empty prompt and empty output all      *)
(* counts 0 and cost 0.                                                    *)
(***************************************************************************)
C16_TokenRule ==
    \A c \in {est_last, est_prev} :
        c.provider # "none" =>
            /\ TokensByRule(c.prompt, c.estimate.input_tokens_est)
            /\ TokensByRule(c.output_text, c.estimate.output_tokens_est)
            /\ c.estimate.input_tokens_est = est_tokens(c.prompt)
            /\ c.estimate.output_tokens_est = est_tokens(c.output_text)
            /\ c.prompt.len = 4000 => c.estimate.input_tokens_est = 1000
            /\ c.output_text.len \in 1..7 => c.estimate.output_tokens_est = 1
            /\ c.estimate.total_tokens_est =
                   c.estimate.input_tokens_est + c.estimate.output_tokens_est
            /\ (c.prompt.len = 0 /\ c.output_text.len = 0) =>
                   /\ c.estimate.input_tokens_est = 0
                   /\ c.estimate.output_tokens_est = 0
                   /\ c.estimate.total_tokens_est = 0
                   /\ c.estimate.cost_est_usd = 0

\* a call on a 4000-character prompt and a 3-character output, then one on
\* the empty prompt and the empty output
C16_Witness ==
    /\ est_prev.provider # "none"
    /\ est_prev.prompt.len = 4000 /\ est_prev.output_text.len = 3
    /\ est_prev.estimate.total_tokens_est = 1001
    /\ est_last.provider # "none"
    /\ est_last.prompt.len = 0 /\ est_last.output_text.len = 0
    /\ est_last.estimate.cost_est_usd = 0

(***************************************************************************)
(* C17.  estimate_cost is monotonic non-decreasing in the length of the    *)
(* output text: for the same prompt and the same prices, an output no      *)
(* longer than another has output_tokens_est, total_tokens_est and         *)
(* cost_est_usd no greater.                                                *)
(***************************************************************************)
C17_MonotoneInOutput ==
    (/\ est_prev.provider # "none" /\ est_last.provider = est_prev.provider
     /\ est_last.prompt = est_prev.prompt
     /\ est_prev.output_text.len <= est_last.output_text.len)
        => /\ est_prev.estimate.output_tokens_est <= est_last.estimate.output_tokens_est
           /\ est_prev.estimate.total_tokens_est <= est_last.estimate.total_tokens_est
           /\ est_prev.estimate.cost_est_usd <= est_last.estimate.cost_est_usd

\* the same prompt and prices, a 3-character output and then a 4-character
\* one (equal estimates), or then an 8-character one (a greater estimate)
C17_Witness ==
    /\ est_prev.provider # "none" /\ est_last.provider = est_prev.provider
    /\ est_last.prompt = est_prev.prompt
    /\ est_prev.output_text.len = 3
    /\ est_last.output_text.len = 8
    /\ est_prev.estimate.cost_est_usd < est_last.estimate.cost_est_usd

\* what a run exposes: nothing while it is in progress, a full result and no
\* error once returned, an error and no result once raised
C18_Outcome ==
    \A r \in AllRuns :
        /\ ~Terminated(r) => (result[r] = NoResult /\ error[r] = NoExc /\ http[r] = 0)
        /\ Returned(r) =>
               /\ error[r] = NoExc /\ http[r] = 200
               /\ result[r] # NoResult
               /\ Len(result[r].attempts) >= 1
               /\ LET last == result[r].attempts[Len(result[r].attempts)]
                  IN  /\ result[r].chosen_provider = last.provider
                      /\ result[r].chosen_model = last.model
                      /\ result[r].text = last.text
                      /\ last.text.kind = "str"
        /\ Raised(r) => (result[r] = NoResult /\ error[r] # NoExc /\ http[r] = 500)

\* an ended run stays as it ended
C18_Final ==
    \A r \in AllRuns :
        Terminated(r) =>
            /\ pc'[r] = pc[r]
            /\ result'[r] = result[r]
            /\ error'[r] = error[r]

(***************************************************************************)
(* C18.  Every run of run_generation eventually ends, in exactly one of    *)
(* two outcomes, a full result or a single terminal error; it never stays  *)
(* forever in the primary or the secondary attempt, and it never exposes a *)
(* result without a chosen successful attempt or a result with an error.   *)
(***************************************************************************)
C18_EndsInOneOutcome ==
    /\ []C18_Outcome
    /\ [][C18_Final]_vars
    /\ \A r \in AllRuns : (pc[r] # "idle") ~> Terminated(r)

\* a run that ended with the composite error after both attempts, the
\* Bedrock one having used up its retries
C18_Witness ==
    \E r \in AllRuns :
        /\ Raised(r) /\ error[r].kind = "both_failed"
        /\ \E x \in {e1[r], e2[r]} : x.kind = "bedrock_transient"
        /\ sends[r]["bedrock"] = 1 + BotoMaxAttempts

(***************************************************************************)
(* C19.  Each provider invocation, Azure's and Bedrock's alike, is bounded *)
(* by the configured hard timeout: no provider call that took longer than  *)
(* hard_timeout_s is taken as an answer (recorded as a success, listed in  *)
(* attempts, returned), and a call that exceeds it ends as a failure of    *)
(* that provider.                                                          *)
(***************************************************************************)
C19_HardTimeoutBoundsCalls ==
    /\ \A r \in AllRuns :
        /\ \A i \in 1..Len(attempts[r]) : attempts[r][i].latency_ms <= HardTimeoutMs
        /\ Returned(r) => result[r].latency_ms <= HardTimeoutMs
        /\ e1[r].kind = "azure_timeout" => hist[r]["primary"].call = "raised"
        /\ e2[r].kind = "azure_timeout" => hist[r]["secondary"].call = "raised"
    /\ \A i \in 1..Len(usage_logs) :
           usage_logs[i].success = 1 => usage_logs[i].latency_ms <= HardTimeoutMs

(***************************************************************************)
(* C20.  A provider call that produces empty output is a failed attempt,   *)
(* for either provider: its call() raises, no success record is written    *)
(* for it, and its empty text is never the text of a returned result nor   *)
(* of an entry of attempts.                                                *)
(***************************************************************************)
C20_EmptyOutputFails ==
    /\ \A r \in AllRuns :
        /\ \A i \in 1..Len(attempts[r]) : attempts[r][i].text.len > 0
        /\ Returned(r) => (result[r].text.len > 0 /\ ~result[r].text.blank)
    /\ \A i \in 1..Len(usage_logs) :
           usage_logs[i].success = 1 => usage_logs[i].output_tokens_est > 0

\* the records of a request lie in the log in attempt order
AttemptOrder(r) ==
    \A i, j \in RowsOf(r) :
        (usage_logs[i].provider = Primary(r)[1]
            /\ usage_logs[j].provider = Secondary(r)[1]) => i < j

Committed ==
    { <<r, s, ok>> \in AllRuns \X Stages \X {0, 1} :
          IF ok = 1 THEN hist[r][s].ok_logged ELSE hist[r][s].fail_logged }

\* ids are never shared, and every log call that returned has its record
\* in the table, which holds nothing else
C22_NothingLost ==
    /\ \A i, j \in 1..Len(usage_logs) :
           i # j => usage_logs[i].id # usage_logs[j].id
    /\ Len(usage_logs) = Cardinality(Committed)
    /\ \A c \in Committed :
           \E i \in 1..Len(usage_logs) :
               /\ usage_logs[i].by = c[1]
               /\ usage_logs[i].request_id = request_id[c[1]]
               /\ usage_logs[i].provider = Sel(c[1], c[2])[1]
               /\ usage_logs[i].success = c[3]

\* a step leaves the table as it is or adds one record with a fresh id
\* after the existing ones, which it leaves unchanged
C22_AppendOnlyStep ==
    \/ usage_logs' = usage_logs
    \/ /\ Len(usage_logs') = Len(usage_logs) + 1
       /\ \A i \in 1..Len(usage_logs) :
              /\ usage_logs'[i] = usage_logs[i]
              /\ usage_logs[i].id # usage_logs'[Len(usage_logs')].id

C23_OneRecordPerProvider ==
    \A r \in AllRuns :
        /\ Count(RowsOf(r)) <= 2
        /\ \A p \in Providers :
               /\ Count(RowsFor(r, p, 0)) + Count(RowsFor(r, p, 1)) <= 1
               /\ ~(RowsFor(r, p, 0) # {} /\ RowsFor(r, p, 1) # {})
        /\ \A s \in Stages :
               (hist[r][s].ok_logged /\ hist[r][s].call = "raised")
                   => ~hist[r][s].fail_logged

====
